---- MODULE Spec2Model ----
(***************************************************************************)
(* Improv-Serial responder of NightDriverStrip (src/src/improvserial.cpp).  *)
(* The responder object, the serial adapter, the wireless subsystem, the    *)
(* credential store and the millisecond clock are modelled; loop() is       *)
(* three steps (the reset, the drain of the bytes the UART holds, the       *)
(* provisioning tick) so that the host can write and the wireless           *)
(* subsystem can change while a call is running.                            *)
(***************************************************************************)
EXTENDS Integers, Sequences, FiniteSets, TLC

(* ---- bounds of the exploration ---- *)
MaxCalls == 2
MaxFeeds == 2
(* longest frame of a host that sends short frames only *)
MaxShort == 20

(* ---- widths ---- *)
Byte == 256
Half == 65536

(* uint32_t as <<high half, low half>>, arithmetic modulo 2^32 *)
U32(hi, lo) == <<hi % Half, lo % Half>>
Add32(a, b) == U32(a[1] + b[1] + ((a[2] + b[2]) \div Half), a[2] + b[2])
Sub32(a, b) == IF a[2] >= b[2] THEN U32(a[1] - b[1] + Half, a[2] - b[2])
               ELSE U32(a[1] - b[1] - 1 + Half, a[2] - b[2] + Half)
Gt32(a, n) == a[1] > 0 \/ a[2] > n

(* ---- protocol constants (improv.h / improvserial.h) ---- *)
IMPROV_SERIAL_VERSION == 1
TYPE_CURRENT_STATE == 1
TYPE_ERROR_STATE == 2
TYPE_RPC == 3
TYPE_RPC_RESPONSE == 4
STATE_AUTHORIZED == 2
STATE_PROVISIONING == 3
STATE_PROVISIONED == 4
ERROR_NONE == 0
ERROR_INVALID_RPC == 1
ERROR_UNKNOWN_RPC == 2
ERROR_UNABLE_TO_CONNECT == 3
UNKNOWN == 0
WIFI_SETTINGS == 1
GET_CURRENT_STATE == 2
GET_DEVICE_INFO == 3
LF == 10
Magic == <<73, 77, 80, 82, 79, 86>>
HttpPrefix == <<104, 116, 116, 112, 58, 47, 47>>

WIFI_OFF == "WIFI_OFF"
WIFI_STA == "WIFI_STA"
WIFI_AP == "WIFI_AP"
WIFI_AP_STA == "WIFI_AP_STA"
WifiModes == {WIFI_OFF, WIFI_STA, WIFI_AP, WIFI_AP_STA}

(* ---- byte-sequence helpers ---- *)
(* uint8_t checksum = 0; for (d : seq) checksum += d;  (the sum is split in   *)
(* halves only to keep the evaluation shallow; addition mod 256 associates)  *)
RECURSIVE SumRange(_, _, _)
SumRange(seq, lo, hi) ==
    IF lo > hi THEN 0
    ELSE IF lo = hi THEN seq[lo] % Byte
    ELSE LET mid == (lo + hi) \div 2
         IN (SumRange(seq, lo, mid) + SumRange(seq, mid + 1, hi)) % Byte

Sum8(seq) == SumRange(seq, 1, Len(seq))

Zeros(n) == [i \in 1 .. n |-> 0]

Resize(seq, n) == IF Len(seq) >= n THEN SubSeq(seq, 1, n) ELSE seq \o Zeros(n - Len(seq))

SetAt(seq, i, b) == [seq EXCEPT ![i + 1] = b % Byte]

RECURSIVE CStr(_)
CStr(str) == IF str = <<>> \/ Head(str) = 0 THEN <<>> ELSE <<Head(str)>> \o CStr(Tail(str))

RECURSIVE Concat(_)
Concat(strs) == IF strs = <<>> THEN <<>>
                ELSE <<Len(Head(strs)) % Byte>> \o Head(strs) \o Concat(Tail(strs))

(* ---- library code of the repository that is outside src/ (improv.cpp) ---- *)

(* improv::build_rpc_response(command, strings, false): command id, inner    *)
(* length, then the length-prefixed strings.                                 *)
build_rpc_response(command, strs) ==
    <<command, Len(Concat(strs)) % Byte>> \o Concat(strs)

BadCommand == [command |-> UNKNOWN, ssid |-> <<>>, password |-> <<>>]

(* improv::parse_improv_data(data, length, false): the decoded command; a    *)
(* malformed body (inner length disagreeing, truncated string) decodes to a  *)
(* command that is none of the recognised ids.                               *)
parse_improv_data(P) ==
    IF Len(P) < 2 \/ P[2] # Len(P) - 2 THEN BadCommand
    ELSE IF P[1] # WIFI_SETTINGS
         THEN [command |-> P[1], ssid |-> <<>>, password |-> <<>>]
    ELSE IF Len(P) < 3 \/ Len(P) < 4 + P[3] THEN BadCommand
    ELSE LET sl == P[3]
             pl == P[4 + sl]
         IN IF Len(P) # 4 + sl + pl THEN BadCommand
            ELSE [command |-> P[1],
                  ssid |-> SubSeq(P, 4, 3 + sl),
                  password |-> SubSeq(P, 5 + sl, 4 + sl + pl)]

(* ---- the responder's writers ---- *)
(* o is the responder object together with what its calls touch: state_,     *)
(* rx_buffer_, last_read_byte_, command_, the globals WiFi_ssid and          *)
(* WiFi_password, the store (nvs), the wireless subsystem, and the logs of   *)
(* this loop() call (written, ops, decoded, dispatched, k, peak).            *)

write_data_(o, data) ==
    [o EXCEPT !.written = Append(@, [data |-> Append(data, LF), src |-> o.k])]

set_state_NoFrame(o, state) == [o EXCEPT !.state_ = state]

set_state_(o, state) ==
    LET d0 == Resize(Magic, 11)
        d1 == SetAt(SetAt(SetAt(SetAt(d0, 6, IMPROV_SERIAL_VERSION),
                    7, TYPE_CURRENT_STATE), 8, 1), 9, state)
        data == SetAt(d1, 10, Sum8(d1))
    IN write_data_([o EXCEPT !.state_ = state], data)

set_error_(o, error) ==
    LET d0 == Resize(Magic, 11)
        d1 == SetAt(SetAt(SetAt(SetAt(d0, 6, IMPROV_SERIAL_VERSION),
                    7, TYPE_ERROR_STATE), 8, 1), 9, error)
        data == SetAt(d1, 10, Sum8(d1))
        o1 == [o EXCEPT !.ops = Append(@, <<"Serial.printf", error>>)]
    IN write_data_(o1, data)

send_response_HeaderSum(o, response) ==
    LET d0 == Resize(Magic, 9)
        d1 == SetAt(SetAt(SetAt(d0, 6, IMPROV_SERIAL_VERSION),
                    7, TYPE_RPC_RESPONSE), 8, Len(response))
        d2 == d1 \o response
        data == Append(d2, Sum8(d1))
    IN write_data_(o, data)

send_response_(o, response) ==
    LET d0 == Resize(Magic, 9)
        d1 == SetAt(SetAt(SetAt(d0, 6, IMPROV_SERIAL_VERSION),
                    7, TYPE_RPC_RESPONSE), 8, Len(response))
        d2 == d1 \o response
        data == Append(d2, Sum8(d2))
    IN write_data_(o, data)

build_rpc_settings_response_(command, ip) ==
    build_rpc_response(command, <<HttpPrefix \o ip>>)

build_version_info_(dev) ==
    build_rpc_response(GET_DEVICE_INFO, dev)

on_wifi_connect_timeout_StateFirst(o) ==
    LET o1 == set_state_(o, STATE_AUTHORIZED)
        o2 == set_error_(o1, ERROR_UNABLE_TO_CONNECT)
    IN [o2 EXCEPT !.ops = Append(@, <<"WiFi.disconnect">>),
                  !.wifi_connected = FALSE]

on_wifi_connect_timeout_ErrorOnly(o) ==
    LET o1 == set_error_(o, ERROR_UNABLE_TO_CONNECT)
    IN [o1 EXCEPT !.ops = Append(@, <<"WiFi.disconnect">>),
                  !.wifi_connected = FALSE]

on_wifi_connect_timeout_(o) ==
    LET o1 == set_error_(o, ERROR_UNABLE_TO_CONNECT)
        o2 == set_state_(o1, STATE_AUTHORIZED)
    IN [o2 EXCEPT !.ops = Append(@, <<"WiFi.disconnect">>),
                  !.wifi_connected = FALSE]

(* ---- inputs of the adapters ---- *)
(* WiFi.localIP().toString(): no address, or an assigned one *)
LocalIPs == {<<48, 46, 48, 46, 48, 46, 48>>, <<49, 48, 46, 49, 46, 50, 46, 51>>}
(* setup()'s firmware, version, variant, name: "fw", "1", "esp", "dev" *)
Devices == {<<<<102, 119>>, <<49>>, <<101, 115, 112>>, <<100, 101, 118>>>>}

(* ---- command handler ---- *)
(* case improv::WIFI_SETTINGS, with ok the result of WriteWiFiConfig() *)
WifiSettingsCaseStopOnFail(od, command, ok) ==
    LET ssid == CStr(command.ssid)
        pw == CStr(command.password)
        o1 == [od EXCEPT !.WiFi_ssid = ssid, !.WiFi_password = pw,
                         !.nvs = IF ok THEN <<ssid, pw>> ELSE @,
                         !.ops = IF ok
                                 THEN Append(@, <<"WriteWiFiConfig", ssid, pw, ok>>)
                                 ELSE Append(Append(@, <<"WriteWiFiConfig", ssid, pw, ok>>),
                                             <<"Serial.print">>)]
        o2 == set_state_(o1, STATE_PROVISIONING)
    IN IF ~ok THEN o2
       ELSE [o2 EXCEPT !.ops = @ \o << <<"WiFi.disconnect">>,
                                       <<"WiFi.mode", WIFI_STA>>,
                                       <<"WiFi.begin", CStr(o2.WiFi_ssid),
                                                       CStr(o2.WiFi_password)>> >>,
                       !.wifi_mode = WIFI_STA,
                       !.wifi_connected = FALSE,
                       !.command_ = command]

WifiSettingsCase(od, command, ok) ==
    LET ssid == CStr(command.ssid)
        pw == CStr(command.password)
        o1 == [od EXCEPT !.WiFi_ssid = ssid, !.WiFi_password = pw,
                         !.nvs = IF ok THEN <<ssid, pw>> ELSE @,
                         !.ops = IF ok
                                 THEN Append(@, <<"WriteWiFiConfig", ssid, pw, ok>>)
                                 ELSE Append(Append(@, <<"WriteWiFiConfig", ssid, pw, ok>>),
                                             <<"Serial.print">>)]
        o2 == set_state_(o1, STATE_PROVISIONING)
    IN [o2 EXCEPT !.ops = @ \o << <<"WiFi.disconnect">>,
                                  <<"WiFi.mode", WIFI_STA>>,
                                  <<"WiFi.begin", CStr(o2.WiFi_ssid),
                                                  CStr(o2.WiFi_password)>> >>,
                  !.wifi_mode = WIFI_STA,
                  !.wifi_connected = FALSE,
                  !.command_ = command]

parse_improv_payload_ReportsAuthorized(o, command, dev) ==
    LET od == [o EXCEPT !.dispatched = Append(@, command.command)]
    IN
    IF command.command = WIFI_SETTINGS THEN
        { [o |-> WifiSettingsCase(od, command, ok), ret |-> TRUE] : ok \in BOOLEAN }
    ELSE IF command.command = GET_CURRENT_STATE THEN
        LET o1 == set_state_(od, STATE_AUTHORIZED)
        IN IF od.state_ = STATE_PROVISIONED
           THEN { [o |-> send_response_(o1,
                             build_rpc_settings_response_(GET_CURRENT_STATE, ip)),
                   ret |-> TRUE] : ip \in LocalIPs }
           ELSE { [o |-> o1, ret |-> TRUE] }
    ELSE IF command.command = GET_DEVICE_INFO THEN
        { [o |-> send_response_(od, build_version_info_(dev)), ret |-> TRUE] }
    ELSE
        { [o |-> set_error_(od, ERROR_UNKNOWN_RPC), ret |-> FALSE] }

parse_improv_payload_(o, command, dev) ==
    LET od == [o EXCEPT !.dispatched = Append(@, command.command)]
    IN
    IF command.command = WIFI_SETTINGS THEN
        { [o |-> WifiSettingsCase(od, command, ok), ret |-> TRUE] : ok \in BOOLEAN }
    ELSE IF command.command = GET_CURRENT_STATE THEN
        LET o1 == set_state_(od, od.state_)
        IN IF o1.state_ = STATE_PROVISIONED
           THEN { [o |-> send_response_(o1,
                             build_rpc_settings_response_(GET_CURRENT_STATE, ip)),
                   ret |-> TRUE] : ip \in LocalIPs }
           ELSE { [o |-> o1, ret |-> TRUE] }
    ELSE IF command.command = GET_DEVICE_INFO THEN
        { [o |-> send_response_(od, build_version_info_(dev)), ret |-> TRUE] }
    ELSE
        { [o |-> set_error_(od, ERROR_UNKNOWN_RPC), ret |-> FALSE] }

(* ---- byte parser ---- *)
(* for (uint8_t i = 0; i < at; i++): i takes the values 0..255 only, so the  *)
(* loop leaves exactly when some value of i is not below at.                 *)
ChecksumLoopExits(at) == \E i \in 0 .. Byte - 1 : ~(i < at)

(* the ways the build may run the checksum loop when it cannot exit: it      *)
(* spins, or (the loop has no side effect, so the compiler may assume it     *)
(* ends) it leaves with an unspecified checksum, equal to the byte or not    *)
LoopOutcomes == {"spin", "match", "mismatch"}

AfterChecksumErrorLast(o, match, dev) ==
    LET raw == o.rx_buffer_
        type == raw[8]
        data_len == raw[9]
    IN IF ~match
       THEN { [o |-> set_error_(o, ERROR_INVALID_RPC), ret |-> FALSE, spin |-> FALSE] }
       ELSE IF type = TYPE_RPC
            THEN LET P == SubSeq(raw, 10, 9 + data_len)
                     o2 == [o EXCEPT !.decoded = Append(@, P)]
                 IN { [o |-> set_error_(r.o, ERROR_NONE), ret |-> r.ret, spin |-> FALSE] :
                        r \in parse_improv_payload_(o2, parse_improv_data(P), dev) }
            ELSE { [o |-> o, ret |-> FALSE, spin |-> FALSE] }

AfterChecksum(o, match, dev) ==
    LET raw == o.rx_buffer_
        type == raw[8]
        data_len == raw[9]
    IN IF ~match
       THEN { [o |-> set_error_(o, ERROR_INVALID_RPC), ret |-> FALSE, spin |-> FALSE] }
       ELSE IF type = TYPE_RPC
            THEN LET o1 == set_error_(o, ERROR_NONE)
                     P == SubSeq(raw, 10, 9 + data_len)
                     o2 == [o1 EXCEPT !.decoded = Append(@, P)]
                 IN { [o |-> r.o, ret |-> r.ret, spin |-> FALSE] :
                        r \in parse_improv_payload_(o2, parse_improv_data(P), dev) }
            ELSE { [o |-> o, ret |-> FALSE, spin |-> FALSE] }

parse_improv_serial_byte_(o0, byte, dev) ==
    LET at == Len(o0.rx_buffer_)
        o == [o0 EXCEPT !.rx_buffer_ = Append(@, byte),
                        !.peak = IF at + 1 > @ THEN at + 1 ELSE @]
        raw == o.rx_buffer_
        plain(b) == { [o |-> o, ret |-> b, spin |-> FALSE] }
    IN IF at <= 5 THEN plain(byte = Magic[at + 1])
       ELSE IF at = 6 THEN plain(byte = IMPROV_SERIAL_VERSION)
       ELSE IF at = 7 THEN plain(TRUE)
       ELSE IF at = 8 THEN plain(TRUE)
       ELSE LET data_len == raw[9]
            IN IF at < 8 + data_len THEN plain(TRUE)
               ELSE IF at = 8 + data_len THEN plain(TRUE)
               ELSE IF at = 8 + data_len + 1
                    THEN IF ChecksumLoopExits(at)
                         THEN AfterChecksum(o, Sum8(SubSeq(raw, 1, at)) = byte, dev)
                         ELSE UNION { IF u = "spin"
                                      THEN { [o |-> o, ret |-> FALSE, spin |-> TRUE] }
                                      ELSE AfterChecksum(o, u = "match", dev)
                                      : u \in LoopOutcomes }
                    ELSE plain(FALSE)

(* ---- loop(), step 2: while (available_()) ... ---- *)
(* result: the object, the bytes left unread, and whether the call is stuck  *)
(* inside the parser                                                         *)
DrainStep(o, byte, now, dev) ==
    { [o |-> IF r.spin THEN r.o
             ELSE IF r.ret THEN [r.o EXCEPT !.last_read_byte_ = now,
                                            !.rets = Append(@, TRUE)]
             ELSE [r.o EXCEPT !.rx_buffer_ = <<>>, !.rets = Append(@, FALSE)],
       spin |-> r.spin] :
      r \in parse_improv_serial_byte_([o EXCEPT !.k = @ + 1], byte, dev) }

(* the bytes q[lo..hi] in order (split in halves to keep the evaluation      *)
(* shallow); at holds the index of the byte the call is stuck on             *)
RECURSIVE DrainRange(_, _, _, _, _, _)
DrainRange(o, q, lo, hi, now, dev) ==
    IF lo > hi THEN { [o |-> o, spin |-> FALSE, at |-> 0] }
    ELSE IF lo = hi
         THEN { [o |-> r.o, spin |-> r.spin, at |-> lo] : r \in DrainStep(o, q[lo], now, dev) }
    ELSE LET mid == (lo + hi) \div 2
         IN UNION { IF r.spin THEN {r} ELSE DrainRange(r.o, q, mid + 1, hi, now, dev)
                    : r \in DrainRange(o, q, lo, mid, now, dev) }

Drain(o, q, now, dev) ==
    { [o |-> r.o, spin |-> r.spin,
       rest |-> IF r.spin THEN SubSeq(q, r.at + 1, Len(q)) ELSE <<>>]
      : r \in DrainRange(o, q, 1, Len(q), now, dev) }

(* ---- what the host may send ---- *)
HostFrame(type, P) ==
    LET h == Magic \o <<IMPROV_SERIAL_VERSION, type, Len(P) % Byte>> \o P
    IN Append(h, Sum8(h))

Corrupt(F) == [F EXCEPT ![Len(F)] = (@ + 1) % Byte]

WifiPayload(ssid, pw) ==
    <<WIFI_SETTINGS, (Len(ssid) + Len(pw) + 2) % Byte, Len(ssid)>> \o ssid
        \o <<Len(pw)>> \o pw

Padded(n) == <<GET_DEVICE_INFO, n - 2>> \o Zeros(n - 2)

(* ssid "a", password "b\0c" *)
Creds == { << <<97>>, <<98, 0, 99>> >> }
(* the longest payload the checksum loop can sum, and the longest possible *)
LongLens == {246, 255}

Payloads ==
    { <<GET_DEVICE_INFO, 0>>, <<GET_CURRENT_STATE, 0>>, <<255, 0>>,
      <<WIFI_SETTINGS, 5, 1, 97>> }
    \cup { WifiPayload(c[1], c[2]) : c \in Creds }
    \cup { Padded(n) : n \in LongLens }

RpcFrames == { HostFrame(TYPE_RPC, P) : P \in Payloads }

Chunks ==
    RpcFrames
    \cup { Corrupt(HostFrame(TYPE_RPC, <<GET_DEVICE_INFO, 0>>)),
           Corrupt(HostFrame(TYPE_RPC, Padded(255))),
           HostFrame(TYPE_CURRENT_STATE, <<STATE_AUTHORIZED>>) }

(* the frames of Chunks with a payload of a few bytes *)
ShortChunks == { c \in Chunks : Len(c) <= MaxShort }

(* the wireless status when the device starts *)
InitWifi == {<<WIFI_STA, TRUE>>, <<WIFI_AP, FALSE>>}

(* milliseconds between two loop() calls (the first call reads the clock as  *)
(* it stands)                                                                *)
Deltas == {49, 50, 51}

(* ---- state ---- *)
VARIABLES
    host,             \* what the host sends: "any" of Chunks, or only the "short" ones
    pc,               \* "new", "idle" (between calls), "drain" (in loop()), "spin"
    state_, rx_buffer_, last_read_byte_, command_, device,
    WiFi_ssid, WiFi_password, nvs,
    wifi_mode, wifi_connected,
    clock, serial_rx,
    calls, feeds,
    now, ret,         \* the current call: millis() and its result
    timeout,          \* its argument, from step 3 on (nothing reads it before)
    \* the log of the current call since the host last sent bytes
    buf0, state0, taken, rets, decoded, dispatched, written, ops, peak, seen,
    hi,               \* highest rank of a frame written earlier in the current call
    prev              \* summary of the bytes the host sent before

objVars == <<state_, rx_buffer_, last_read_byte_, command_, WiFi_ssid, WiFi_password,
             nvs, wifi_mode, wifi_connected>>
logVars == <<buf0, state0, taken, rets, decoded, dispatched, written, ops, peak, seen>>
vars == <<host, pc, objVars, device, clock, serial_rx, calls, feeds, now, timeout, ret,
          logVars, hi, prev>>

(* the chunks of bytes the host may write *)
HostChunks == IF host = "any" THEN Chunks ELSE ShortChunks

(* a whole rpc frame with a correct checksum *)
IsRpcFrame(F) ==
    /\ Len(F) >= 10
    /\ SubSeq(F, 1, 8) = Magic \o <<IMPROV_SERIAL_VERSION, TYPE_RPC>>
    /\ F[9] = Len(F) - 10
    /\ F[Len(F)] = Sum8(SubSeq(F, 1, Len(F) - 1))

PayloadOf(F) == SubSeq(F, 10, Len(F) - 1)

(* rank of a frame type in the order error_state, current_state, rpc_response *)
Rank(w) == IF w.data[8] = TYPE_ERROR_STATE THEN 1
           ELSE IF w.data[8] = TYPE_CURRENT_STATE THEN 2 ELSE 3

RECURSIVE MaxRank(_, _)
MaxRank(log, r) == IF log = <<>> THEN r
                   ELSE MaxRank(Tail(log), IF Rank(Head(log)) > r THEN Rank(Head(log)) ELSE r)

(* what is kept of the bytes the host sent before the current ones: the      *)
(* clock value of the call that drained them, whether they were exactly one  *)
(* whole rpc frame drained into an empty buffer, and how many commands they  *)
(* dispatched                                                                *)
NoCall == [valid |-> FALSE, now |-> U32(0, 0), oneframe |-> FALSE, ndisp |-> 0]

Archived == IF taken = <<>> THEN prev
            ELSE [valid |-> TRUE, now |-> now,
                  oneframe |-> buf0 = <<>> /\ IsRpcFrame(taken),
                  ndisp |-> Len(dispatched)]

Obj == [state_ |-> state_, rx_buffer_ |-> rx_buffer_, last_read_byte_ |-> last_read_byte_,
        command_ |-> command_, WiFi_ssid |-> WiFi_ssid, WiFi_password |-> WiFi_password,
        nvs |-> nvs, wifi_mode |-> wifi_mode, wifi_connected |-> wifi_connected,
        rets |-> rets, decoded |-> decoded, dispatched |-> dispatched,
        written |-> written, ops |-> ops, peak |-> peak, k |-> Len(rets)]

Store(o) ==
    /\ state_' = o.state_
    /\ rx_buffer_' = o.rx_buffer_
    /\ last_read_byte_' = o.last_read_byte_
    /\ command_' = o.command_
    /\ WiFi_ssid' = o.WiFi_ssid
    /\ WiFi_password' = o.WiFi_password
    /\ nvs' = o.nvs
    /\ wifi_mode' = o.wifi_mode
    /\ wifi_connected' = o.wifi_connected
    /\ rets' = o.rets
    /\ decoded' = o.decoded
    /\ dispatched' = o.dispatched
    /\ written' = o.written
    /\ ops' = o.ops
    /\ peak' = o.peak

ClearLog ==
    /\ buf0' = <<>> /\ taken' = <<>> /\ rets' = <<>> /\ decoded' = <<>>
    /\ dispatched' = <<>> /\ written' = <<>> /\ ops' = <<>> /\ peak' = 0

AssociatedAnyMode(mode, connected) == mode = WIFI_AP \/ connected

(* WiFi.getMode() == WIFI_AP || (WiFi.getMode() == WIFI_STA && WiFi.isConnected()) *)
Associated(mode, connected) == mode = WIFI_AP \/ (mode = WIFI_STA /\ connected)

InitWith(h) ==
    /\ host = h
    /\ pc = "new"
    /\ state_ = STATE_AUTHORIZED
    /\ rx_buffer_ = <<>>
    /\ last_read_byte_ = U32(0, 0)
    /\ command_ = BadCommand
    /\ device = <<>>
    /\ WiFi_ssid = <<>> /\ WiFi_password = <<>>
    /\ nvs = << <<>>, <<>> >>
    /\ \E w \in InitWifi : wifi_mode = w[1] /\ wifi_connected = w[2]
    /\ clock = U32(Half - 1, Half - 100)
    /\ serial_rx = <<>>
    /\ calls = 0 /\ feeds = 0
    /\ now = U32(0, 0) /\ timeout = FALSE /\ ret = "none"
    /\ buf0 = <<>> /\ state0 = STATE_AUTHORIZED /\ taken = <<>>
    /\ rets = <<>> /\ decoded = <<>> /\ dispatched = <<>>
    /\ written = <<>> /\ ops = <<>> /\ peak = 0
    /\ seen = [mode |-> WIFI_OFF, connected |-> FALSE]
    /\ hi = 0
    /\ prev = NoCall

Init == InitWith("any")

(* the same device facing a host that sends short frames only *)
InitShort == InitWith("short")

(* setup(firmware, version, variant, name, serial) *)
Setup ==
    /\ pc = "new"
    /\ \E dev \in Devices : device' = dev
    /\ state_' = IF wifi_mode = WIFI_STA /\ wifi_connected
                 THEN STATE_PROVISIONED ELSE STATE_AUTHORIZED
    /\ seen' = [mode |-> wifi_mode, connected |-> wifi_connected]
    /\ state0' = state_'
    /\ pc' = "idle"
    /\ UNCHANGED <<host, rx_buffer_, last_read_byte_, command_, WiFi_ssid, WiFi_password, nvs,
                   wifi_mode, wifi_connected, clock, serial_rx, calls, feeds,
                   now, timeout, ret, buf0, taken, rets, decoded, dispatched,
                   written, ops, peak, hi, prev>>

(* the host writes bytes to the UART, between two calls or while loop() is   *)
(* draining, once the bytes it sent before have been read                    *)
Feed ==
    /\ pc \in {"idle", "drain"}
    /\ serial_rx = <<>>
    /\ feeds < MaxFeeds
    /\ calls < MaxCalls \/ pc = "drain"
    /\ \E c \in HostChunks : serial_rx' = c
    /\ feeds' = feeds + 1
    /\ prev' = Archived
    /\ hi' = IF pc = "drain" THEN MaxRank(written, hi) ELSE 0
    /\ ret' = "none"
    /\ timeout' = FALSE
    /\ ClearLog
    /\ UNCHANGED <<host, pc, objVars, device, clock, calls, now, state0, seen>>

(* the wireless subsystem before the tick: the association completes or      *)
(* drops, or the application changes the mode (the responder reads the       *)
(* status only there and in setup())                                         *)
WifiEvent ==
    /\ pc = "drain"
    /\ serial_rx = <<>>
    /\ state_ = STATE_PROVISIONING
    /\ \/ /\ wifi_mode \in {WIFI_STA, WIFI_AP_STA}
          /\ wifi_connected' = ~wifi_connected
          /\ wifi_mode' = wifi_mode
       \/ /\ wifi_mode' \in WifiModes \ {wifi_mode}
          /\ wifi_connected' = FALSE
    /\ UNCHANGED <<host, pc, state_, rx_buffer_, last_read_byte_, command_, WiFi_ssid,
                   WiFi_password, nvs, device, clock, serial_rx, calls, feeds,
                   now, timeout, ret, logVars, hi, prev>>

(* loop(timeout), step 1: the inter-frame reset *)
LoopBegin ==
    /\ pc = "idle"
    /\ calls < MaxCalls
    /\ \E d \in (IF calls = 0 THEN {0} ELSE Deltas) :
         LET n == Add32(clock, U32(0, d))
             stale == Gt32(Sub32(n, last_read_byte_), 50)
         IN /\ clock' = n
            /\ now' = n
            /\ rx_buffer_' = IF stale THEN <<>> ELSE rx_buffer_
            /\ last_read_byte_' = IF stale THEN n ELSE last_read_byte_
    /\ pc' = "drain"
    /\ state0' = state_
    /\ ret' = "none"
    /\ timeout' = FALSE
    /\ calls' = calls + 1
    /\ prev' = Archived
    /\ hi' = 0
    /\ ClearLog
    /\ UNCHANGED <<host, state_, command_, WiFi_ssid, WiFi_password, nvs, wifi_mode,
                   wifi_connected, device, serial_rx, feeds, seen>>

(* loop(timeout), step 2: while (available_()) over the bytes the UART holds *)
LoopDrain ==
    /\ pc = "drain"
    /\ serial_rx # <<>>
    /\ \E r \in Drain([Obj EXCEPT !.peak = Len(rx_buffer_)], serial_rx, now, device) :
         /\ Store(r.o)
         /\ serial_rx' = r.rest
         /\ pc' = IF r.spin THEN "spin" ELSE "drain"
    /\ buf0' = rx_buffer_
    /\ state0' = state_
    /\ taken' = serial_rx
    /\ UNCHANGED <<host, device, clock, calls, feeds, now, timeout, ret, seen, hi, prev>>

LoopTickTimeoutAnyState ==
    /\ pc = "drain"
    /\ serial_rx = <<>>
    /\ pc' = "idle"
    /\ \E t \in BOOLEAN :
         /\ timeout' = t
         /\ LET o == [Obj EXCEPT !.k = 0]
            IN /\ seen' = [mode |-> wifi_mode, connected |-> wifi_connected]
               /\ IF state_ = STATE_PROVISIONING /\ Associated(wifi_mode, wifi_connected)
                  THEN /\ \E ip \in LocalIPs :
                            Store(send_response_(set_state_(o, STATE_PROVISIONED),
                                  build_rpc_settings_response_(WIFI_SETTINGS, ip)))
                       /\ ret' = "true"
                  ELSE /\ IF t THEN Store(on_wifi_connect_timeout_(o))
                               ELSE Store(o)
                       /\ ret' = "false"
    /\ UNCHANGED <<host, device, clock, serial_rx, calls, feeds, now, buf0, state0,
                   taken, hi, prev>>

LoopTickTrueOnTimeout ==
    /\ pc = "drain"
    /\ serial_rx = <<>>
    /\ pc' = "idle"
    /\ \E t \in BOOLEAN :
         /\ timeout' = t
         /\ LET o == [Obj EXCEPT !.k = 0]
            IN IF state_ = STATE_PROVISIONING
               THEN /\ seen' = [mode |-> wifi_mode, connected |-> wifi_connected]
                    /\ IF Associated(wifi_mode, wifi_connected)
                       THEN /\ \E ip \in LocalIPs :
                                 Store(send_response_(set_state_(o, STATE_PROVISIONED),
                                       build_rpc_settings_response_(WIFI_SETTINGS, ip)))
                            /\ ret' = "true"
                       ELSE IF t THEN Store(on_wifi_connect_timeout_(o)) /\ ret' = "true"
                                 ELSE Store(o) /\ ret' = "false"
               ELSE Store(o) /\ ret' = "false" /\ seen' = seen
    /\ UNCHANGED <<host, device, clock, serial_rx, calls, feeds, now, buf0, state0,
                   taken, hi, prev>>

(* loop(timeout), step 3 and the return *)
LoopTick ==
    /\ pc = "drain"
    /\ serial_rx = <<>>
    /\ pc' = "idle"
    /\ \E t \in BOOLEAN :
         /\ timeout' = t
         /\ LET o == [Obj EXCEPT !.k = 0]
            IN IF state_ = STATE_PROVISIONING
               THEN /\ seen' = [mode |-> wifi_mode, connected |-> wifi_connected]
                    /\ IF Associated(wifi_mode, wifi_connected)
                       THEN /\ \E ip \in LocalIPs :
                                 Store(send_response_(set_state_(o, STATE_PROVISIONED),
                                       build_rpc_settings_response_(WIFI_SETTINGS, ip)))
                            /\ ret' = "true"
                       ELSE /\ IF t THEN Store(on_wifi_connect_timeout_(o))
                                    ELSE Store(o)
                            /\ ret' = "false"
               ELSE Store(o) /\ ret' = "false" /\ seen' = seen
    /\ UNCHANGED <<host, device, clock, serial_rx, calls, feeds, now, buf0, state0,
                   taken, hi, prev>>

Next == Setup \/ Feed \/ WifiEvent \/ LoopBegin \/ LoopDrain \/ LoopTick

Spec == Init /\ [][Next]_vars

SpecShort == InitShort /\ [][Next]_vars

(* loop() is straight-line code: a call that has been entered drains what is *)
(* pending, runs step 3 and returns, and the application calls loop() again. *)
(* LoopDrain is enabled exactly while a call has bytes pending and LoopTick  *)
(* exactly while a call has none, and each ends its own condition, so their  *)
(* weak fairness is that neither condition lasts forever.                    *)
DrainPending == pc = "drain" /\ serial_rx # <<>>
TickPending == pc = "drain" /\ serial_rx = <<>>

SpecLive ==
    /\ InitShort /\ [][Next]_vars
    /\ WF_vars(LoopBegin)
    /\ []<>~DrainPending /\ []<>~TickPending

TypeOK ==
    /\ pc \in {"new", "idle", "drain", "spin"}
    /\ state_ \in {STATE_AUTHORIZED, STATE_PROVISIONING, STATE_PROVISIONED}
    /\ last_read_byte_ \in (0 .. Half - 1) \X (0 .. Half - 1)
    /\ \A i \in 1 .. Len(rx_buffer_) : rx_buffer_[i] \in 0 .. Byte - 1
    /\ \A i \in 1 .. Len(written) :
          \A j \in 1 .. Len(written[i].data) : written[i].data[j] \in 0 .. Byte - 1

(* ---- reading the logs of a call ---- *)
FrameType(w) == w.data[8]
FrameArg(w) == w.data[10]
IsError(w, e) == FrameType(w) = TYPE_ERROR_STATE /\ FrameArg(w) = e
IsState(w, st) == FrameType(w) = TYPE_CURRENT_STATE /\ FrameArg(w) = st
Count(log, P(_)) == Cardinality({i \in 1 .. Len(log) : P(log[i])})
Drained == pc \in {"drain", "spin"} /\ taken # <<>>
Gap == Sub32(now, prev.now)

(* a whole frame with the right magic and version and a wrong checksum *)
IsBadSumFrame(F) ==
    /\ Len(F) >= 10
    /\ SubSeq(F, 1, 7) = Magic \o <<IMPROV_SERIAL_VERSION>>
    /\ F[9] = Len(F) - 10
    /\ F[Len(F)] # Sum8(SubSeq(F, 1, Len(F) - 1))

(* C1: every loop() call returns: whatever bytes the serial adapter holds,   *)
(* the call is never stuck inside the parser.                                *)
C1_LoopNeverSpins == pc # "spin"

(* C2: two valid rpc frames back to back, the second written by the host     *)
(* while the call that drained the first is still draining (same millis())   *)
(* or drained by a call less than 50 ms later, are both dispatched to        *)
(* parse_improv_payload_.                                                    *)
C2_BackToBackBothDispatched ==
    (Drained /\ prev.valid /\ prev.oneframe /\ IsRpcFrame(taken) /\ ~Gt32(Gap, 49))
       => (pc = "drain" /\ prev.ndisp = 1 /\ Len(dispatched) = 1)

(* C3: a valid rpc frame consumed in a call at t1 and a second one consumed  *)
(* in a later call at t2 with t2 - t1 >= 50 ms are both dispatched.          *)
C3_GapAtLeast50BothDispatched ==
    (Drained /\ prev.valid /\ prev.oneframe /\ IsRpcFrame(taken) /\ Gt32(Gap, 49))
       => (pc = "drain" /\ prev.ndisp = 1 /\ Len(dispatched) = 1)

(* C4: a well-formed rpc frame fed into an empty parser is accepted byte by  *)
(* byte up to the checksum comparison, its payload (offset 9, length L) is   *)
(* what the decoder receives, and no error_state(invalid_rpc) is emitted.    *)
C4_RoundTrip ==
    (Drained /\ buf0 = <<>> /\ IsRpcFrame(taken))
       => /\ pc = "drain"
          /\ Len(rets) = Len(taken)
          /\ \A i \in 1 .. Len(rets) - 1 : rets[i]
          /\ decoded = <<PayloadOf(taken)>>
          /\ \A i \in 1 .. Len(written) : ~IsError(written[i], ERROR_INVALID_RPC)

(* C5: every frame written to the serial port ends with 0x0A, and the byte   *)
(* before it is the sum mod 256 of all bytes before that one.                *)
C5_EmittedChecksum ==
    \A i \in 1 .. Len(written) :
        LET F == written[i].data
            n == Len(F)
        IN /\ n >= 11
           /\ F[n] = 10
           /\ F[n - 1] = Sum8(SubSeq(F, 1, n - 2))

C5_Witness ==
    /\ \E i \in 1 .. Len(written) : FrameType(written[i]) = TYPE_CURRENT_STATE
    /\ \E i \in 1 .. Len(written) : FrameType(written[i]) = TYPE_ERROR_STATE
    /\ \E i \in 1 .. Len(written) : FrameType(written[i]) = TYPE_RPC_RESPONSE
                                      /\ Len(written[i].data) > 20

(* C6 as stated: within one loop() call no error_state frame follows a       *)
(* current_state or rpc_response frame and no current_state frame follows an *)
(* rpc_response frame.                                                       *)
C6_OrderedInCall ==
    /\ \A i \in 1 .. Len(written) : hi <= Rank(written[i])
    /\ \A i, j \in 1 .. Len(written) : i < j => Rank(written[i]) <= Rank(written[j])

(* C6 amended: the order error_state, current_state, rpc_response holds      *)
(* among the frames emitted for one inbound frame and among the frames       *)
(* emitted by step 3 of loop(), not across them.                             *)
C6_OrderedPerStep ==
    \A i, j \in 1 .. Len(written) :
        (i < j /\ written[i].src = written[j].src)
            => Rank(written[i]) <= Rank(written[j])

C6_Witness ==
    /\ \E i, j \in 1 .. Len(written) :
          /\ i < j
          /\ written[i].src = written[j].src
          /\ Rank(written[i]) < Rank(written[j])
    /\ \E i, j \in 1 .. Len(written) :
          i < j /\ written[i].src # written[j].src /\ Rank(written[i]) > Rank(written[j])

(* C7 as stated: the state becomes provisioned (in setup() or in the tick)   *)
(* only while the wireless subsystem reports station mode and connected.     *)
C7_ProvisionedOnlyStation ==
    [][(state_' = STATE_PROVISIONED /\ state_ # STATE_PROVISIONED)
          => (wifi_mode = WIFI_STA /\ wifi_connected)]_vars

(* C7 amended: setup() enters provisioned only in station mode and           *)
(* connected; the tick enters it only in station mode and connected or in    *)
(* access-point mode.                                                        *)
C7_ProvisionedOnlyAssociated ==
    [][(state_' = STATE_PROVISIONED /\ state_ # STATE_PROVISIONED)
          => \/ wifi_mode = WIFI_STA /\ wifi_connected
             \/ pc = "drain" /\ wifi_mode = WIFI_AP]_vars

C7_Witness ==
    /\ state_ = STATE_PROVISIONED
    /\ state0 # STATE_PROVISIONED
    /\ ret = "true"
    /\ seen.mode = WIFI_AP

(* C8: a tick in state provisioning with timeout set and no association      *)
(* emits error_state(unable_to_connect) and then current_state(authorized),  *)
(* calls the wireless disconnect, leaves the state authorized and returns    *)
(* false.                                                                    *)
C8_TimeoutTick ==
    [][(/\ pc = "drain" /\ pc' = "idle"
        /\ state_ = STATE_PROVISIONING
        /\ timeout'
        /\ ~(wifi_mode = WIFI_AP \/ (wifi_mode = WIFI_STA /\ wifi_connected)))
          => /\ Len(written') = Len(written) + 2
             /\ SubSeq(written', 1, Len(written)) = written
             /\ IsError(written'[Len(written) + 1], ERROR_UNABLE_TO_CONNECT)
             /\ IsState(written'[Len(written) + 2], STATE_AUTHORIZED)
             /\ Len(ops') > Len(ops)
             /\ SubSeq(ops', 1, Len(ops)) = ops
             /\ ops'[Len(ops')] = <<"WiFi.disconnect">>
             /\ state_' = STATE_AUTHORIZED
             /\ ret' = "false"]_vars

C8_Witness ==
    /\ pc = "idle" /\ ret = "false" /\ timeout
    /\ state_ = STATE_AUTHORIZED
    /\ Len(written) >= 2
    /\ IsError(written[Len(written) - 1], ERROR_UNABLE_TO_CONNECT)
    /\ IsState(written[Len(written)], STATE_AUTHORIZED)
    /\ taken = <<>>

(* the calls on the wireless subsystem and the store, in order *)
IsAdapterCall(e) == e[1] \in {"WriteWiFiConfig", "WiFi.disconnect", "WiFi.mode", "WiFi.begin"}
AdapterCalls == SelectSeq(ops, IsAdapterCall)

(* C9: each decoded wifi_settings command writes the store with the new      *)
(* pair, then disconnects, then switches to station mode, then associates    *)
(* with the same pair, whether or not the write succeeded; the state after   *)
(* the command is provisioning.                                              *)
C9_WifiSettingsOrder ==
    Drained =>
      LET n == Count(dispatched, LAMBDA c : c = WIFI_SETTINGS)
          a == AdapterCalls
      IN /\ Len(a) = 4 * n
         /\ \A i \in 0 .. n - 1 :
               /\ a[4 * i + 1][1] = "WriteWiFiConfig"
               /\ a[4 * i + 2] = <<"WiFi.disconnect">>
               /\ a[4 * i + 3] = <<"WiFi.mode", WIFI_STA>>
               /\ a[4 * i + 4] = <<"WiFi.begin", a[4 * i + 1][2], a[4 * i + 1][3]>>
         /\ n > 0 => /\ state_ = STATE_PROVISIONING
                     /\ a[4 * n][2] = CStr(command_.ssid)
                     /\ a[4 * n][3] = CStr(command_.password)
                     /\ a[4 * n - 3][4] => nvs = <<a[4 * n][2], a[4 * n][3]>>

C9_Witness ==
    /\ pc = "drain"
    /\ state0 = STATE_PROVISIONED
    /\ dispatched = <<WIFI_SETTINGS>>
    /\ Len(AdapterCalls) = 4
    /\ AdapterCalls[1][4] = FALSE
    /\ AdapterCalls[4][1] = "WiFi.begin"
    /\ AdapterCalls[4][3] # command_.password

(* C10: a frame with the right magic and version and a wrong checksum byte   *)
(* yields exactly one error_state(invalid_rpc), an empty receive buffer, an  *)
(* unchanged state, no dispatched command and no wireless or store call.     *)
C10_ChecksumFailure ==
    (Drained /\ buf0 = <<>> /\ IsBadSumFrame(taken))
       => /\ pc = "drain"
          /\ Count(written, LAMBDA w : IsError(w, ERROR_INVALID_RPC)) = 1
          /\ Len(written) = 1
          /\ rx_buffer_ = <<>>
          /\ state_ = state0
          /\ dispatched = <<>>
          /\ AdapterCalls = <<>>

(* ---- a frame the host wrote and the step of loop() that drains it ---- *)
(* the step from a state with pc = "drain" and bytes pending is LoopDrain:   *)
(* the unprimed variables are the object before the frame, the primed ones   *)
(* the object and the logs after it                                          *)
Known == {WIFI_SETTINGS, GET_CURRENT_STATE, GET_DEVICE_INFO}
HasUnknownId(F) == IsRpcFrame(F) /\ Len(F) >= 11 /\ F[10] \notin Known
MalformedBody(P) == parse_improv_data(P) = BadCommand /\ (P = <<>> \/ P[1] \in Known)
CredsUnchanged ==
    /\ WiFi_ssid' = WiFi_ssid /\ WiFi_password' = WiFi_password
    /\ nvs' = nvs /\ command_' = command_
WifiUnchanged == wifi_mode' = wifi_mode /\ wifi_connected' = wifi_connected

(* C11: a checksum-valid rpc frame with a command id outside wifi_settings,  *)
(* get_current_state, get_device_info yields exactly one error_state(02),    *)
(* no current_state and no rpc_response frame, leaves the state and the      *)
(* credentials as they were, calls neither the wireless subsystem nor the    *)
(* store, and ends with an empty receive buffer.                             *)
C11_UnknownCommand ==
    [][(pc = "drain" /\ HasUnknownId(serial_rx))
          => /\ pc' = "drain"
             /\ Count(written', LAMBDA w : IsError(w, ERROR_UNKNOWN_RPC)) = 1
             /\ \A i \in 1 .. Len(written') :
                   FrameType(written'[i]) = TYPE_ERROR_STATE
             /\ state_' = state_
             /\ CredsUnchanged /\ WifiUnchanged
             /\ SelectSeq(ops', IsAdapterCall) = <<>>
             /\ rx_buffer_' = <<>>]_vars

ResponseOf(w) == SubSeq(w.data, 10, Len(w.data) - 2)
IsResponse(w) == FrameType(w) = TYPE_RPC_RESPONSE
(* an rpc_response to command c that carries one string, "http://" and more *)
IsUrlResponse(w, c) ==
    /\ IsResponse(w)
    /\ LET R == ResponseOf(w)
       IN /\ Len(R) >= 3 + Len(HttpPrefix)
          /\ R[1] = c
          /\ R[2] = Len(R) - 2
          /\ R[3] = Len(R) - 3
          /\ SubSeq(R, 4, 3 + Len(HttpPrefix)) = HttpPrefix

(* C13: a handled get_current_state command leaves the state s and the       *)
(* retained credentials as they were (so any number of them does), emits     *)
(* current_state(s), and emits an rpc_response, the URL list, exactly when   *)
(* s is provisioned.                                                         *)
C13_GetCurrentStateIdempotent ==
    [][(pc = "drain" /\ serial_rx # <<>> /\ dispatched' = <<GET_CURRENT_STATE>>)
          => /\ state_' = state_
             /\ CredsUnchanged
             /\ \E i \in 1 .. Len(written') : IsState(written'[i], state_)
             /\ (\E i \in 1 .. Len(written') : IsResponse(written'[i]))
                   <=> state_ = STATE_PROVISIONED
             /\ \A i \in 1 .. Len(written') :
                   IsResponse(written'[i])
                      => IsUrlResponse(written'[i], GET_CURRENT_STATE)]_vars

(* the second of two handled commands was get_current_state in provisioned *)
C13_Witness ==
    /\ pc = "drain"
    /\ dispatched = <<GET_CURRENT_STATE>>
    /\ prev.valid /\ prev.ndisp = 1
    /\ state0 = STATE_PROVISIONED /\ state_ = STATE_PROVISIONED
    /\ \E i \in 1 .. Len(written) : IsUrlResponse(written[i], GET_CURRENT_STATE)

(* C14: loop() returns true exactly when the state went from provisioning to *)
(* provisioned in that call, and false otherwise; the state becomes          *)
(* provisioned in no other step of a call than the returning one.            *)
C14_ReturnValue ==
    [][/\ (pc = "drain" /\ pc' = "idle")
            => ret' = IF state_ = STATE_PROVISIONING /\ state_' = STATE_PROVISIONED
                      THEN "true" ELSE "false"
       /\ (pc \in {"idle", "drain"} /\ pc' # "idle")
            => (state_' = STATE_PROVISIONED => state_ = STATE_PROVISIONED)]_vars

(* a call that handled wifi_settings, saw the association and returned true *)
C14_Witness ==
    /\ pc = "idle" /\ ret = "true"
    /\ dispatched = <<WIFI_SETTINGS>>
    /\ state_ = STATE_PROVISIONED

IsCurrentState(w) == FrameType(w) = TYPE_CURRENT_STATE

(* C15: a handled wifi_settings command emits exactly one current_state      *)
(* frame, with byte 0x03, whatever the state was; a handled                  *)
(* get_current_state command in state s emits exactly one current_state      *)
(* frame, with the byte of s.                                                *)
C15_OneCurrentStatePerCommand ==
    [][(pc = "drain" /\ serial_rx # <<>>)
          => /\ dispatched' = <<WIFI_SETTINGS>>
                  => /\ Count(written', IsCurrentState) = 1
                     /\ Count(written', LAMBDA w : IsState(w, STATE_PROVISIONING)) = 1
             /\ dispatched' = <<GET_CURRENT_STATE>>
                  => /\ Count(written', IsCurrentState) = 1
                     /\ Count(written', LAMBDA w : IsState(w, state_)) = 1]_vars

(* wifi_settings handled while the state was already provisioning *)
C15_Witness ==
    /\ pc = "drain"
    /\ dispatched = <<WIFI_SETTINGS>>
    /\ state0 = STATE_PROVISIONING
    /\ Count(written, LAMBDA w : IsState(w, STATE_PROVISIONING)) = 1

(* 9 header bytes, the longest payload and the checksum byte *)
FrameLimit == 9 + (Byte - 1) + 1

TickStep == pc = "drain" /\ pc' = "idle"

(* C17: after setup() the state changes only when a wifi_settings command is *)
(* handled (to provisioning), in step 3 when the association is observed     *)
(* (provisioning to provisioned) and in step 3 when timeout is true and no   *)
(* association is observed (provisioning to authorized); a call with         *)
(* timeout = true and no input in state authorized or provisioned emits      *)
(* nothing, calls nothing and leaves the state.                              *)
C17_TransitionEdges ==
    [][pc # "new" =>
         /\ state_' # state_ =>
              \/ /\ pc = "drain" /\ serial_rx # <<>>
                 /\ dispatched' = <<WIFI_SETTINGS>>
                 /\ state_' = STATE_PROVISIONING
              \/ /\ TickStep
                 /\ state_ = STATE_PROVISIONING /\ state_' = STATE_PROVISIONED
                 /\ Associated(wifi_mode, wifi_connected)
              \/ /\ TickStep
                 /\ state_ = STATE_PROVISIONING /\ state_' = STATE_AUTHORIZED
                 /\ timeout' /\ ~Associated(wifi_mode, wifi_connected)
         /\ (TickStep /\ timeout' /\ taken = <<>> /\ state_ # STATE_PROVISIONING)
              => /\ written' = written /\ ops' = ops
                 /\ state_' = state_
                 /\ WifiUnchanged /\ CredsUnchanged
                 /\ ret' = "false"]_vars

(* a call with timeout = true and no input returned in state provisioned *)
C17_Witness ==
    /\ pc = "idle" /\ calls > 0
    /\ timeout /\ taken = <<>>
    /\ state_ = STATE_PROVISIONED
    /\ ret = "false" /\ written = <<>> /\ ops = <<>>

(* a checksum-valid rpc frame whose body decodes as wifi_settings *)
IsWifiSettingsFrame(F) ==
    IsRpcFrame(F) /\ parse_improv_data(PayloadOf(F)).command = WIFI_SETTINGS
(* the pair the handler retains from the frame *)
PairOf(F) ==
    LET c == parse_improv_data(PayloadOf(F))
    IN <<CStr(c.ssid), CStr(c.password)>>

(* the bytes in taken are all the call has drained (the logs then cover the  *)
(* whole call)                                                               *)
OnlyChunkOfCall == ~(prev.valid /\ prev.now = now)

(* C18: when a call with timeout = true has drained a valid wifi_settings    *)
(* frame and step 3 sees no association, the call emits                      *)
(* current_state(provisioning), then error_state(unable_to_connect), then    *)
(* current_state(authorized), calls the wireless disconnect after the        *)
(* associate, ends in state authorized and returns false, and the store      *)
(* keeps the new pair (read as: the pair is there if the command's write     *)
(* succeeded).                                                               *)
C18_SettingsAndTimeoutInOneCall ==
    [][(/\ TickStep /\ timeout'
        /\ IsWifiSettingsFrame(taken) /\ OnlyChunkOfCall
        /\ ~Associated(wifi_mode, wifi_connected))
          => /\ \E i, j, k \in 1 .. Len(written') :
                   /\ i < j /\ j < k
                   /\ IsState(written'[i], STATE_PROVISIONING)
                   /\ IsError(written'[j], ERROR_UNABLE_TO_CONNECT)
                   /\ IsState(written'[k], STATE_AUTHORIZED)
             /\ \E i, j \in 1 .. Len(ops') :
                   /\ i < j
                   /\ ops'[i][1] = "WiFi.begin"
                   /\ ops'[j] = <<"WiFi.disconnect">>
             /\ state_' = STATE_AUTHORIZED
             /\ ret' = "false"
             /\ \A i \in 1 .. Len(ops') :
                   (ops'[i][1] = "WriteWiFiConfig" /\ ops'[i][4])
                      => nvs' = PairOf(taken)]_vars

(* a whole frame of another type than rpc with a correct checksum *)
IsOtherFrame(F) ==
    /\ Len(F) >= 10
    /\ SubSeq(F, 1, 7) = Magic \o <<IMPROV_SERIAL_VERSION>>
    /\ F[8] # TYPE_RPC
    /\ F[9] = Len(F) - 10
    /\ F[Len(F)] = Sum8(SubSeq(F, 1, Len(F) - 1))

(* C19: every checksum-valid rpc frame has its payload decoded and has       *)
(* error_state(none) emitted as the first frame produced for it, whatever    *)
(* the command id; a checksum-valid frame of another type emits nothing and  *)
(* leaves the buffer empty.                                                  *)
C19_ErrorNoneFirst ==
    [][/\ (pc = "drain" /\ IsRpcFrame(serial_rx))
            => /\ pc' = "drain"
               /\ decoded' = <<PayloadOf(serial_rx)>>
               /\ written' # <<>>
               /\ IsError(written'[1], ERROR_NONE)
       /\ (pc = "drain" /\ IsOtherFrame(serial_rx))
            => /\ pc' = "drain"
               /\ written' = <<>>
               /\ rx_buffer_' = <<>>]_vars

(* C20: a call that reaches step 3 in state provisioning with timeout true   *)
(* or with the association reported returns with the state provisioned or    *)
(* authorized; and a call entered in state provisioning, unless it is caught *)
(* in the checksum loop and so never reaches step 3, returns with the state  *)
(* left or after a step 3 that saw neither timeout nor association (so the   *)
(* state stays provisioning only as long as every call sees neither, or a    *)
(* new wifi_settings command re-enters it).                                  *)
C20_ProvisioningLeft ==
    /\ [][(/\ TickStep /\ state_ = STATE_PROVISIONING
           /\ (timeout' \/ Associated(wifi_mode, wifi_connected)))
             => state_' \in {STATE_PROVISIONED, STATE_AUTHORIZED}]_vars
    /\ (pc = "drain" /\ state_ = STATE_PROVISIONING)
          ~> \/ pc = "spin"
             \/ /\ pc = "idle"
                /\ \/ state_ # STATE_PROVISIONING
                   \/ ~timeout /\ ~Associated(seen.mode, seen.connected)

(* provisioning outlasted a call and was left by a later call without input *)
C20_Witness ==
    /\ pc = "idle" /\ calls = 2
    /\ taken = <<>> /\ state0 = STATE_PROVISIONING
    /\ state_ # STATE_PROVISIONING

====
